---- MODULE Spec2Model ----
(***************************************************************************)
(* A model of package julian (src/julian.go): the conversion between       *)
(* time.Time instants and Julian dates held in a float64, the accessors of *)
(* the Date type and the legacy Julian type.                               *)
(*                                                                         *)
(* The package computes in IEEE-754 binary64 and in int64.  TLC's integers *)
(* are 32 bits wide, so the model carries its own exact arithmetic:        *)
(*   - a natural number is a little-endian sequence of limbs in base 2^15  *)
(*     with no leading zero limb (zero is << >>);                          *)
(*   - an integer is a record [neg, mag];                                  *)
(*   - a float64 is a record [neg, man, exp] denoting                      *)
(*     (-1)^neg * man * 2^exp, where man is zero or has exactly 53 bits.   *)
(* Every float64 operation is the exact result rounded to nearest, ties to *)
(* even, as the hardware does it.  Infinities, NaN and subnormals are not  *)
(* represented; ExpInRange states that no value of the model needs them.   *)
(***************************************************************************)
EXTENDS Integers, Sequences, FiniteSets, TLC

(***************************************************************************)
(* Natural numbers of any size.  TLC evaluates on a small stack, so these  *)
(* operators are written without recursion along the limbs: a carry is     *)
(* found by looking at the limbs below, a quotient digit by an estimate    *)
(* from the leading bits.                                                  *)
(***************************************************************************)
Base == 2 ^ 15

\* the number of bits of k, for 0 <= k < 2^31
BitLenSmall(k) == Cardinality({j \in 0..30 : 2 ^ j <= k})

LimbBits == BitLenSmall(Base) - 1

Max(S) == CHOOSE x \in S : \A y \in S : y <= x

Limb(a, i) == IF 1 <= i /\ i <= Len(a) THEN a[i] ELSE 0

\* a without its leading zero limbs
NTrim(a) == SubSeq(a, 1, Max({0} \cup {i \in 1..Len(a) : a[i] # 0}))

\* the limbs of k, for 0 <= k < 2^31
NFromNat(k) == NTrim(<<k % Base, (k \div Base) % Base, k \div (Base * Base)>>)

\* the number a < 2^31
NToNat(a) == Limb(a, 1) + Base * Limb(a, 2) + Base * Base * Limb(a, 3)

NOne == NFromNat(1)

\* The sum of the columns s, each at most 2 Base - 2: column i takes a
\* carry when a column below overflows and all between are full.
Carry(s, i) ==
  \E j \in 1..(i - 1) : s[j] >= Base /\ \A k \in (j + 1)..(i - 1) : s[k] = Base - 1

NCarried(s) ==
  NTrim([i \in 1..(Len(s) + 1) |->
           (Limb(s, i) + (IF Carry(s, i) THEN 1 ELSE 0)) % Base])

NAdd(a, b) ==
  NCarried([i \in 1..Max({Len(a), Len(b)}) |-> Limb(a, i) + Limb(b, i)])

\* a - b for a >= b: limb i lends when a limb below is short and all
\* between are equal
Borrow(a, b, i) ==
  \E j \in 1..(i - 1) :
    Limb(a, j) < Limb(b, j) /\ \A k \in (j + 1)..(i - 1) : Limb(a, k) = Limb(b, k)

NSub(a, b) ==
  NTrim([i \in 1..Len(a) |->
           (a[i] - Limb(b, i) - (IF Borrow(a, b, i) THEN 1 ELSE 0) + Base) % Base])

\* -1, 0, 1 as a < b, a = b, a > b
NCmp(a, b) ==
  IF Len(a) < Len(b) THEN -1
  ELSE IF Len(a) > Len(b) THEN 1
  ELSE LET d == {i \in 1..Len(a) : a[i] # b[i]}
       IN  IF d = {} THEN 0
           ELSE IF a[Max(d)] < b[Max(d)] THEN -1 ELSE 1

NLt(a, b) == NCmp(a, b) < 0
NLe(a, b) == NCmp(a, b) <= 0

\* a * Base^n
NShlLimbs(a, n) == IF a = << >> THEN a ELSE [i \in 1..n |-> 0] \o a

\* a * k for 0 <= k <= Base + 3: the low halves of the products of the
\* limbs, plus their high halves one limb up
NMulSmall(a, k) ==
  NCarried([i \in 1..(Len(a) + 1) |->
              ((Limb(a, i) * k) % Base) + ((Limb(a, i - 1) * k) \div Base)])

RECURSIVE NMulR(_, _, _)
NMulR(a, b, i) ==
  IF i > Len(b) THEN << >>
  ELSE NAdd(NShlLimbs(NMulSmall(a, b[i]), i - 1), NMulR(a, b, i + 1))

NMul(a, b) == NMulR(a, b, 1)

\* a * 2^n
NShl(a, n) == NShlLimbs(NMulSmall(a, 2 ^ (n % LimbBits)), n \div LimbBits)

\* a \div 2^n
NShr(a, n) ==
  LET w == n \div LimbBits
      lo == 2 ^ (n % LimbBits)
      hi == Base \div lo
  IN  NTrim([i \in 1..(Len(a) - w) |->
               (Limb(a, i + w) \div lo) + ((Limb(a, i + w + 1) % lo) * hi)])

\* a % 2^n
NLow(a, n) ==
  LET w == n \div LimbBits
  IN  NTrim([i \in 1..Max({0} \cup {j \in 1..(w + 1) : j <= Len(a)}) |->
               IF i <= w THEN a[i] ELSE a[i] % (2 ^ (n % LimbBits))])

NBitLen(a) ==
  IF a = << >> THEN 0 ELSE LimbBits * (Len(a) - 1) + BitLenSmall(a[Len(a)])

NOdd(a) == a # << >> /\ a[1] % 2 = 1

\* Long division, one limb of the dividend at a time from the top:
\* NDivModR(a, b, i) is [q, r] with (a \div Base^i) = q * b + r and
\* 0 <= r < b, for b > 0.
\*
\* QuoDigit(b, r) is r \div b for r < Base * b.  With s the bits of b
\* past its leading 15, (r \div 2^s) \div (b \div 2^s + 1) is at most 3
\* below the digit and never above it.
QuoDigit(b, r) ==
  LET s  == Max({0, NBitLen(b) - LimbBits})
      lo == NToNat(NShr(r, s)) \div (NToNat(NShr(b, s)) + 1)
  IN  IF s = 0 THEN NToNat(r) \div NToNat(b)
      ELSE lo + Cardinality({k \in 1..3 : NLe(NMulSmall(b, lo + k), r)})

DivStep(p, limb, b) ==
  IF p.r = << >> /\ limb = 0 THEN [q |-> NShlLimbs(p.q, 1), r |-> << >>]
  ELSE LET r2 == NAdd(NShlLimbs(p.r, 1), NFromNat(limb))
           d  == QuoDigit(b, r2)
       IN  [q |-> NAdd(NShlLimbs(p.q, 1), NFromNat(d)),
            r |-> NSub(r2, NMulSmall(b, d))]

RECURSIVE NDivModR(_, _, _)
NDivModR(a, b, i) ==
  IF NBitLen(a) - LimbBits * i < NBitLen(b)
  THEN [q |-> << >>, r |-> SubSeq(a, i + 1, Len(a))]
  ELSE DivStep(NDivModR(a, b, i + 1), a[i + 1], b)

NDivMod(a, b) == NDivModR(a, b, 0)

(***************************************************************************)
(* Integers of any size: [neg, mag], zero never negative.                  *)
(***************************************************************************)
IMake(neg, mag) == [neg |-> neg /\ mag # << >>, mag |-> mag]

IFromInt(k) == IF k < 0 THEN IMake(TRUE, NFromNat(-k)) ELSE IMake(FALSE, NFromNat(k))

IZero == IFromInt(0)

INeg(a) == IMake(~a.neg, a.mag)

IAdd(a, b) ==
  IF a.neg = b.neg THEN IMake(a.neg, NAdd(a.mag, b.mag))
  ELSE IF NLe(b.mag, a.mag) THEN IMake(a.neg, NSub(a.mag, b.mag))
  ELSE IMake(b.neg, NSub(b.mag, a.mag))

ISub(a, b) == IAdd(a, INeg(b))

IMul(a, b) == IMake(a.neg # b.neg, NMul(a.mag, b.mag))

ICmp(a, b) ==
  IF a.neg /\ ~b.neg THEN -1
  ELSE IF ~a.neg /\ b.neg THEN 1
  ELSE IF a.neg THEN NCmp(b.mag, a.mag)
  ELSE NCmp(a.mag, b.mag)

ILt(a, b) == ICmp(a, b) < 0
ILe(a, b) == ICmp(a, b) <= 0

IAbs(a) == IMake(FALSE, a.mag)

\* the range of int64
MinInt64 == IMake(TRUE, NShl(NOne, 63))
MaxInt64 == IMake(FALSE, NSub(NShl(NOne, 63), NOne))

FitsInt64(a) == ILe(MinInt64, a) /\ ILe(a, MaxInt64)

(***************************************************************************)
(* float64: (-1)^neg * man * 2^exp with man = 0 or 2^52 <= man < 2^53.     *)
(* Zero is kept unsigned; Go's == and < do not tell -0 from 0.             *)
(***************************************************************************)
\* the precision of float64, the type under Date and Julian
MantBits == 53

FZero == [neg |-> FALSE, man |-> << >>, exp |-> 0]

\* n * 2^e (plus a positive amount below 2^e when sticky) rounded to the
\* nearest float64, ties to even.  A sticky n has more than MantBits bits.
FRound(neg, n, e, sticky) ==
  IF n = << >> THEN FZero
  ELSE LET bl == NBitLen(n) IN
    IF bl <= MantBits
    THEN [neg |-> neg, man |-> NShl(n, MantBits - bl), exp |-> e - (MantBits - bl)]
    ELSE LET sh   == bl - MantBits
             q    == NShr(n, sh)
             c    == NCmp(NLow(n, sh), NShl(NOne, sh - 1))
             up   == c > 0 \/ (c = 0 /\ (sticky \/ NOdd(q)))
             q2   == IF up THEN NAdd(q, NOne) ELSE q
         IN  IF NBitLen(q2) > MantBits
             THEN [neg |-> neg, man |-> NShr(q2, 1), exp |-> e + sh + 1]
             ELSE [neg |-> neg, man |-> q2, exp |-> e + sh]

\* the float64 nearest to the integer a: Go's float64(a)
FFromI(a) == FRound(a.neg, a.mag, 0, FALSE)

\* the float64 of a small integer constant
FConst(k) == FFromI(IFromInt(k))

\* x as an integer multiple of 2^e, for e <= x.exp or x zero
FScaled(x, e) ==
  IF x.man = << >> THEN IZero ELSE IMake(x.neg, NShl(x.man, x.exp - e))

MinExp(x, y) ==
  IF x.man = << >> THEN y.exp
  ELSE IF y.man = << >> THEN x.exp
  ELSE IF x.exp < y.exp THEN x.exp ELSE y.exp

FNeg(x) == IF x.man = << >> THEN x ELSE [x EXCEPT !.neg = ~x.neg]

FAdd(x, y) ==
  LET e == MinExp(x, y)
      s == IAdd(FScaled(x, e), FScaled(y, e))
  IN  FRound(s.neg, s.mag, e, FALSE)

FSub(x, y) == FAdd(x, FNeg(y))

FMul(x, y) == FRound(x.neg # y.neg, NMul(x.man, y.man), x.exp + y.exp, FALSE)

\* x / y for y # 0: the quotient of the mantissas to 55 or 56 bits, the
\* remainder as the sticky bit
FDiv(x, y) ==
  IF x.man = << >> THEN FZero
  ELSE LET dm == NDivMod(NShl(x.man, MantBits + 2), y.man)
       IN  FRound(x.neg # y.neg, dm.q, x.exp - y.exp - (MantBits + 2), dm.r # << >>)

FCmp(x, y) == LET e == MinExp(x, y) IN ICmp(FScaled(x, e), FScaled(y, e))

FLt(x, y) == FCmp(x, y) < 0
FLe(x, y) == FCmp(x, y) <= 0

\* the integer part of x, the fraction discarded: Go's conversion of a
\* float64 to an integer type, before the range of the type is considered
FTrunc(x) ==
  IF x.man = << >> THEN IZero
  ELSE IF x.exp >= 0 THEN IMake(x.neg, NShl(x.man, x.exp))
  ELSE IMake(x.neg, NShr(x.man, -x.exp))

\* math.Mod(x, 1): x less its integer part, with the sign of x; exact
FMod1(x) ==
  IF x.man = << >> \/ x.exp >= 0 THEN FZero
  ELSE FRound(x.neg, NLow(x.man, -x.exp), x.exp, FALSE)

\* x = p / q exactly, p an integer and q a natural number: FromRat rounds
\* the rational p / q to float64 the way the compiler rounds a literal
FromRat(p, q) ==
  IF p.mag = << >> THEN FZero
  ELSE LET sh == Max({0, MantBits + 2 + NBitLen(q) - NBitLen(p.mag)})
           dm == NDivMod(NShl(p.mag, sh), q)
       IN  FRound(p.neg, dm.q, -sh, dm.r # << >>)

(***************************************************************************)
(* time.Date and (time.Time).UnixNano of the standard library, which       *)
(* NewDate calls: the fields are normalized, the overflow of each rolling  *)
(* into the next higher one, the days since 1970-01-01 are counted in the  *)
(* proleptic Gregorian calendar, and the zone's offset is taken off.  A    *)
(* location is modelled by its name and a fixed offset east of UTC.        *)
(***************************************************************************)
Locations == {"UTC", "PST"}

ZoneOffset(loc) == IF loc = "PST" THEN -8 * 3600 ELSE 0

IsLeap(year) == year % 4 = 0 /\ (year % 100 # 0 \/ year % 400 = 0)

\* the leap days of the years 1..y
LeapDays(y) == y \div 4 - y \div 100 + y \div 400

DaysSinceEpoch(year) == 365 * (year - 1970) + LeapDays(year - 1) - LeapDays(1969)

DaysBefore(month) == <<0, 31, 59, 90, 120, 151, 181, 212, 243, 273, 304, 334>>[month]

\* norm(hi, lo, base) of package time: lo brought into 0..base-1
NormHi(hi, lo, base) == hi + lo \div base
NormLo(lo, base) == lo % base

\* time.Date(year, month, day, hour, min, sec, nsec, loc).UnixNano()
GoDate(year, month, day, hour, min, sec, nsec, loc) ==
  LET y   == NormHi(year, month - 1, 12)
      m   == NormLo(month - 1, 12) + 1
      s1  == NormHi(sec, nsec, 10 ^ 9)
      ns  == NormLo(nsec, 10 ^ 9)
      mi1 == NormHi(min, s1, 60)
      s   == NormLo(s1, 60)
      h1  == NormHi(hour, mi1, 60)
      mi  == NormLo(mi1, 60)
      d1  == NormHi(day, h1, 24)
      h   == NormLo(h1, 24)
      d   == DaysSinceEpoch(y) + DaysBefore(m)
               + (IF IsLeap(y) /\ m >= 3 THEN 1 ELSE 0) + d1 - 1
      unix == IAdd(IMul(IFromInt(d), IFromInt(86400)),
                   IFromInt(h * 3600 + mi * 60 + s - ZoneOffset(loc)))
  IN  IAdd(IMul(unix, IFromInt(10 ^ 9)), IFromInt(ns))

GoDateOf(f) == GoDate(f.year, f.month, f.day, f.hour, f.min, f.sec, f.nsec, f.loc)

(***************************************************************************)
(* src/julian.go, the Date type (lines 15-96).                             *)
(***************************************************************************)
day_seconds == 86400
days_p_century == 36525
epoch_j2000 == 2451545

\* day_seconds * 1_000_000_000, an exact untyped constant
day_nanoseconds == NMul(NFromNat(day_seconds), NFromNat(10 ^ 9))

\* 2440587.5 = 4881175 / 2
julian_unix == FromRat(IFromInt(4881175), NFromNat(2))

\* the constants at the type float64, which each of them has exactly
F_day_seconds == FConst(day_seconds)
F_day_nanoseconds == FFromI(IMake(FALSE, day_nanoseconds))
F_days_p_century == FConst(days_p_century)
F_epoch_j2000 == FConst(epoch_j2000)

\* What int64(x) can give.  Inside the range of int64 the fraction is
\* discarded.  Outside it the Go specification leaves the value to the
\* implementation: amd64 gives the smallest int64, arm64 saturates.
Int64Of(x) ==
  IF FitsInt64(FTrunc(x)) THEN {FTrunc(x)} ELSE {MinInt64, MaxInt64}

\* Variants of Time with a slip in them, which the properties below must
\* tell from Time: the days taken from the epoch, the half
\* day of the epoch left out, and the division done on integers.
Time_Mirrored(n) == FSub(julian_unix, FDiv(FFromI(n), F_day_nanoseconds))

Time_WholeEpoch(n) == FAdd(FDiv(FFromI(n), F_day_nanoseconds), FConst(2440587))

Time_IntegerDivision(n) ==
  FAdd(FFromI(IMake(n.neg, NDivMod(n.mag, day_nanoseconds).q)), julian_unix)

\* func Time(t time.Time) Date, t given by n = t.UnixNano()
Time(n) == FAdd(FDiv(FFromI(n), F_day_nanoseconds), julian_unix)

\* NewDate with the location left out of the call of time.Date
NewDate_UTC(year, month, day, hour, min, sec, nsec, loc) ==
  LET t == GoDate(year, month, day, hour, min, sec, nsec, "UTC")
  IN  FAdd(FDiv(FFromI(t), F_day_nanoseconds), julian_unix)

\* func NewDate(year, month, day, hour, min, sec, nsec, loc) Date
NewDate(year, month, day, hour, min, sec, nsec, loc) ==
  LET t == GoDate(year, month, day, hour, min, sec, nsec, loc)
  IN  FAdd(FDiv(FFromI(t), F_day_nanoseconds), julian_unix)

NewDateOf(f) == NewDate(f.year, f.month, f.day, f.hour, f.min, f.sec, f.nsec, f.loc)

\* Unix with math.Round before the conversion
Date_Unix_Rounded(jd) ==
  LET x == FMul(FSub(jd, julian_unix), F_day_seconds)
      h == FromRat(IMake(x.neg, NOne), NFromNat(2))
  IN  Int64Of(FAdd(x, h))

\* func (jd Date) Unix() int64
Date_Unix(jd) == Int64Of(FMul(FSub(jd, julian_unix), F_day_seconds))

\* UnixNano with the seconds of a day for its nanoseconds
Date_UnixNano_Seconds(jd) == Int64Of(FMul(FSub(jd, julian_unix), F_day_seconds))

\* func (jd Date) UnixNano() int64
Date_UnixNano(jd) == Int64Of(FMul(FSub(jd, julian_unix), F_day_nanoseconds))

\* func (jd Date) Gregorian() time.Time: time.Unix(0, nsec) is the instant
\* nsec nanoseconds after the Unix epoch, given here by that number
Date_Gregorian(jd) == Date_UnixNano(jd)

\* Time with the whole date returned
Date_Time_Whole(jd) == jd

\* func (jd Date) Time() float64
Date_Time(jd) == FMod1(jd)

\* func (jd Date) Duration() time.Duration, an int64 of nanoseconds
Date_Duration(jd) == Int64Of(FMul(F_day_nanoseconds, FMod1(jd)))

\* func (jd Date) Day() float64
Date_Day(jd) == jd

\* DayNumber with math.Floor before the conversion
Date_DayNumber_Floor(jd) ==
  IF jd.neg /\ FMod1(jd) # FZero THEN Int64Of(FSub(FSub(jd, FMod1(jd)), FConst(1)))
  ELSE Int64Of(jd)

\* func (jd Date) DayNumber() int, an int being 64 bits wide
Date_DayNumber(jd) == Int64Of(jd)

\* Century counted from the Unix epoch
Date_Century_Unix(jd) == FDiv(FSub(jd, julian_unix), F_days_p_century)

\* func (jd Date) Century() float64
Date_Century(jd) == FDiv(FSub(jd, F_epoch_j2000), F_days_p_century)

(***************************************************************************)
(* src/julian.go, the legacy Julian type (lines 105-186).                  *)
(***************************************************************************)
seconds == 86400
legacy_days_p_century == 36525
legacy_epoch_j2000 == 2451545

\* seconds * 1000000000
nanoseconds == NMul(NFromNat(seconds), NFromNat(10 ^ 9))

legacy_julian_unix == FromRat(IFromInt(4881175), NFromNat(2))

F_seconds == FConst(seconds)
F_nanoseconds == FFromI(IMake(FALSE, nanoseconds))
F_legacy_days_p_century == FConst(legacy_days_p_century)
F_legacy_epoch_j2000 == FConst(legacy_epoch_j2000)

\* func Time(t time.Time) Julian
Legacy_Time(n) == FAdd(FDiv(FFromI(n), F_nanoseconds), legacy_julian_unix)

\* func Date(year, month, day, hour, min, sec, nsec, loc) Julian
Legacy_Date(year, month, day, hour, min, sec, nsec, loc) ==
  LET t == GoDate(year, month, day, hour, min, sec, nsec, loc)
  IN  FAdd(FDiv(FFromI(t), F_nanoseconds), legacy_julian_unix)

Legacy_DateOf(f) ==
  Legacy_Date(f.year, f.month, f.day, f.hour, f.min, f.sec, f.nsec, f.loc)

\* the legacy Unix with the nanoseconds of a day for its seconds
Julian_Unix_Nanos(j) == Int64Of(FMul(FSub(j, legacy_julian_unix), F_nanoseconds))

\* func (j Julian) Unix() int64
Julian_Unix(j) == Int64Of(FMul(FSub(j, legacy_julian_unix), F_seconds))

\* func (j Julian) UnixNano() int64
Julian_UnixNano(j) == Int64Of(FMul(FSub(j, legacy_julian_unix), F_nanoseconds))

\* func (j Julian) Gregorian() time.Time
Julian_Gregorian(j) == Julian_UnixNano(j)

\* func (j Julian) Time() float64
Julian_Time(j) == FMod1(j)

\* func (j Julian) Day() float64
Julian_Day(j) == j

\* func (j Julian) DayNumber() int
Julian_DayNumber(j) == Int64Of(j)

\* func (j Julian) Century() float64
Julian_Century(j) == FDiv(FSub(j, F_legacy_epoch_j2000), F_legacy_days_p_century)

(***************************************************************************)
(* The inputs.  The package holds no state: a run takes one input, makes   *)
(* Julian dates from it with the functions of one of the two types, and    *)
(* calls an accessor on the date it holds.                                 *)
(***************************************************************************)
MaxOff == 1
MaxQ == 2
MaxOver == 1

\* Instants, by their Unix time in nanoseconds: the Unix epoch, the two
\* ends of int64, a time of 2010 and one of 1950, and around each the
\* instants a few nanoseconds and a few tens of microseconds away.
Bases ==
  { IZero, MaxInt64, MinInt64,
    GoDate(2010, 2, 14, 5, 21, 0, 0, "UTC"),
    GoDate(1950, 6, 15, 7, 8, 9, 123456789, "UTC") }

Steps == {1, 50000}

Around(b) ==
  { t \in { IAdd(b, IFromInt(k * st)) : k \in -MaxOff..MaxOff, st \in Steps } :
      FitsInt64(t) }

\* an earlier and a later instant, near each other or far apart
InstantPairs ==
  UNION { { <<a, b>> : a, b \in Around(c) } : c \in Bases } \cup (Bases \X Bases)

\* Calendar fields: the dates of the package's tests, and dates whose
\* month or day is past its usual range.
Fields(y, mo, d, h, mi, sc, ns, loc) ==
  [year |-> y, month |-> mo, day |-> d, hour |-> h, min |-> mi, sec |-> sc,
   nsec |-> ns, loc |-> loc]

TestDates ==
  { Fields(2017, 1, 1, 0, 0, 0, 0, "UTC"),
    Fields(1990, 1, 1, 0, 0, 0, 0, "UTC"),
    Fields(1998, 7, 4, 0, 0, 0, 0, "UTC"),
    Fields(2010, 2, 14, 5, 21, 0, 0, "UTC"),
    Fields(2010, 2, 14, 5, 21, 0, 0, "PST") }

RolledDates ==
  { Fields(y, mo, d, 0, 0, 0, 0, loc) :
      y \in {2015, 2016}, mo \in {1, 2} \cup (13..12 + MaxOver),
      d \in {1} \cup (32..31 + MaxOver), loc \in Locations }

FieldSamples == TestDates \cup RolledDates

\* float64 values a caller converts to a date: quarters of a day around
\* zero, around the Unix epoch and around J2000.0, and two values whose
\* integer part is beyond int64
Centers == {0, 2440587, epoch_j2000}

FloatSamples ==
  { FromRat(IFromInt(4 * c + k), NFromNat(4)) : c \in Centers, k \in -MaxQ..MaxQ }
    \cup { FFromI(IMake(neg, NShl(NOne, 64))) : neg \in BOOLEAN }

NoFields == Fields(0, 0, 0, 0, 0, 0, 0, "UTC")

Inputs ==
  { [kind |-> "instants", ts |-> p, f |-> NoFields, v |-> FZero] :
      p \in { q \in InstantPairs : ILt(q[1], q[2]) } }
  \cup { [kind |-> "fields", ts |-> << >>, f |-> f, v |-> FZero] : f \in FieldSamples }
  \cup { [kind |-> "float", ts |-> << >>, f |-> NoFields, v |-> v] : v \in FloatSamples }

(***************************************************************************)
(* The state of a run.                                                     *)
(***************************************************************************)
VARIABLES
  in,    \* the input of the run
  n,     \* how many dates the run has made from it
  ty,    \* the type of the dates: "none" before the first, "Date", "Julian"
  by,    \* the function that made jd: "Time", "NewDate" or "conv"
  jd,    \* the date held, a float64
  prev,  \* the instant and the date of the Time call before the last
  call   \* the accessor called on jd and what it returned

vars == <<in, n, ty, by, jd, prev, call>>

NoPrev == [set |-> FALSE, t |-> IZero, jd |-> FZero]
NoCall == [op |-> "none", ret |-> IZero]

\* the instants the input gives: those listed, or the one time.Date makes
\* of the fields
InstantCount == IF in.kind = "instants" THEN Len(in.ts)
                ELSE IF in.kind = "fields" THEN 1 ELSE 0

InstantAt(i) == IF in.kind = "instants" THEN in.ts[i] ELSE GoDateOf(in.f)

Init ==
  /\ in \in Inputs
  /\ n = 0
  /\ ty = "none"
  /\ by = "none"
  /\ jd = FZero
  /\ prev = NoPrev
  /\ call = NoCall

\* jd becomes d, a date of type t made by function f, the next instant of
\* the input used up when f is Time
Made(t, f, d) ==
  /\ ty \in {"none", t}
  /\ n' = n + 1
  /\ ty' = t
  /\ by' = f
  /\ jd' = d
  /\ prev' = IF f = "Time" /\ by = "Time"
             THEN [set |-> TRUE, t |-> InstantAt(n), jd |-> jd] ELSE NoPrev
  /\ call' = NoCall
  /\ UNCHANGED in

\* A date of type t is held and no accessor has been called on it.  An
\* accessor leaves the date as it is, so a second call reaches nothing the
\* first does not: a run calls one accessor on each date.
Held(t) == ty = t /\ call = NoCall

\* the accessor op returns r
Returned(op, r) ==
  /\ call' = [op |-> op, ret |-> r]
  /\ UNCHANGED <<in, n, ty, by, jd, prev>>

\* ---- type Date
DoTime == n < InstantCount /\ Made("Date", "Time", Time(InstantAt(n + 1)))

DoNewDate == in.kind = "fields" /\ n = 0 /\ Made("Date", "NewDate", NewDateOf(in.f))

\* Date(v), the conversion of a float64
DoConvert == in.kind = "float" /\ n = 0 /\ Made("Date", "conv", in.v)

DoGregorian == Held("Date") /\ \E r \in Date_Gregorian(jd) : Returned("Gregorian", r)

DoUnix == Held("Date") /\ \E r \in Date_Unix(jd) : Returned("Unix", r)

DoUnixNano == Held("Date") /\ \E r \in Date_UnixNano(jd) : Returned("UnixNano", r)

DoDateTime == Held("Date") /\ Returned("Time", Date_Time(jd))

DoDuration == Held("Date") /\ \E r \in Date_Duration(jd) : Returned("Duration", r)

DoDay == Held("Date") /\ Returned("Day", Date_Day(jd))

DoDayNumber == Held("Date") /\ \E r \in Date_DayNumber(jd) : Returned("DayNumber", r)

DoCentury == Held("Date") /\ Returned("Century", Date_Century(jd))

\* ---- type Julian
DoLegacyTime == n < InstantCount /\ Made("Julian", "Time", Legacy_Time(InstantAt(n + 1)))

DoLegacyDate == in.kind = "fields" /\ n = 0 /\ Made("Julian", "NewDate", Legacy_DateOf(in.f))

\* Julian(v), the conversion of a float64
DoLegacyConvert == in.kind = "float" /\ n = 0 /\ Made("Julian", "conv", in.v)

DoJulianGregorian == Held("Julian") /\ \E r \in Julian_Gregorian(jd) : Returned("Gregorian", r)

DoJulianUnix == Held("Julian") /\ \E r \in Julian_Unix(jd) : Returned("Unix", r)

DoJulianUnixNano == Held("Julian") /\ \E r \in Julian_UnixNano(jd) : Returned("UnixNano", r)

DoJulianTime == Held("Julian") /\ Returned("Time", Julian_Time(jd))

DoJulianDay == Held("Julian") /\ Returned("Day", Julian_Day(jd))

DoJulianDayNumber == Held("Julian") /\ \E r \in Julian_DayNumber(jd) : Returned("DayNumber", r)

DoJulianCentury == Held("Julian") /\ Returned("Century", Julian_Century(jd))

Next ==
  \/ DoTime \/ DoNewDate \/ DoConvert
  \/ DoGregorian \/ DoUnix \/ DoUnixNano \/ DoDateTime \/ DoDuration
  \/ DoDay \/ DoDayNumber \/ DoCentury
  \/ DoLegacyTime \/ DoLegacyDate \/ DoLegacyConvert
  \/ DoJulianGregorian \/ DoJulianUnix \/ DoJulianUnixNano \/ DoJulianTime
  \/ DoJulianDay \/ DoJulianDayNumber \/ DoJulianCentury

Spec == Init /\ [][Next]_vars

\* every float64 of a state is a normal number: no operation of the model
\* has overflowed or gone below the normal range, where the model stops
\* being float64
Normal(x) ==
  x.man = << >> \/ (NBitLen(x.man) = MantBits /\ x.exp >= -1074 /\ x.exp <= 971)

IsFloatOp(op) == op \in {"Time", "Day", "Century"}

ExpInRange ==
  /\ Normal(jd)
  /\ Normal(prev.jd)
  /\ IsFloatOp(call.op) => Normal(call.ret)

(***************************************************************************)
(* The properties.  Their numbers are written out again here, apart from   *)
(* the constants of the package, so that a slip in a constant shows.       *)
(***************************************************************************)
\* the instant the date held was made from, when Time made it
Instant == InstantAt(n)

\* the exact value of x in units of 2^-k, x being a multiple of 2^-k
Exact(x, k) ==
  IF x.man = << >> THEN IZero
  ELSE IF x.exp + k >= 0 THEN IMake(x.neg, NShl(x.man, x.exp + k))
  ELSE IMake(x.neg, NShr(x.man, -(x.exp + k)))

\* k with every float64 among x, y a multiple of 2^-k, and k >= least
Scale(x, y, least) ==
  LET kx == IF x.man = << >> THEN 0 ELSE -x.exp
      ky == IF y.man = << >> THEN 0 ELSE -y.exp
      m  == IF kx > ky THEN kx ELSE ky
  IN  IF m > least THEN m ELSE least

Pow2(k) == IMake(FALSE, NShl(NOne, k))

\* 86400000000000, the nanoseconds of a day
NsPerDay == IMul(IMul(IFromInt(86400), IFromInt(10 ^ 6)), IFromInt(1000))

\* 2440587.5, 2451545 and 0 as float64
JD_1970 == FromRat(IFromInt(24405875), NFromNat(10))
JD_2000 == FromRat(IFromInt(2451545), NFromNat(1))

RoundTripTolerance == 50000

Within(a, b, tol) == ILt(IAbs(ISub(a, b)), IFromInt(tol))

\* r is x with its fraction discarded
IsTrunc(r, x) ==
  IF x.man = << >> THEN r = IZero
  ELSE IF x.exp >= 0 THEN r = IMake(x.neg, NShl(x.man, x.exp))
  ELSE /\ NLe(NShl(r.mag, -x.exp), x.man)
       /\ NLt(x.man, NShl(NAdd(r.mag, NOne), -x.exp))
       /\ r.mag # << >> => r.neg = x.neg

\* r is the greatest integer not above x
IsFloor(r, x) ==
  LET k == IF x.man = << >> \/ x.exp >= 0 THEN 0 ELSE -x.exp
  IN  /\ ILe(IMul(r, Pow2(k)), Exact(x, k))
      /\ ILt(Exact(x, k), IMul(IAdd(r, IFromInt(1)), Pow2(k)))

\* the integer part of x is an int64
TruncFits(x) == FLt(x, FFromI(Pow2(63))) /\ FLe(FFromI(MinInt64), x)

FromTime == ty = "Date" /\ by = "Time"

\* the instants at least 50 microseconds inside the range of int64
WellInside(t) ==
  /\ ILe(IAdd(MinInt64, IFromInt(RoundTripTolerance)), t)
  /\ ILe(t, ISub(MaxInt64, IFromInt(RoundTripTolerance)))

\* C1 as claimed: for every instant whose Unix time in nanoseconds fits an
\* int64, Time(x).Gregorian() is less than 50000 ns away from x.
C1_RoundTrip ==
  (FromTime /\ call.op = "Gregorian" /\ FitsInt64(Instant))
    => Within(call.ret, Instant, RoundTripTolerance)

\* C1 as amended: for every instant whose Unix time in nanoseconds lies at
\* least 50000 ns inside the range of int64, Time(x).Gregorian() is less
\* than 50000 ns away from x.
C1_RoundTripInside ==
  (FromTime /\ call.op = "Gregorian" /\ WellInside(Instant))
    => Within(call.ret, Instant, RoundTripTolerance)

\* a round trip that did not come back to the very nanosecond
C1_Witness ==
  /\ FromTime /\ call.op = "Gregorian" /\ WellInside(Instant)
  /\ call.ret # Instant

\* the last two Time calls of type Date, on an earlier and a later instant
TwoTimes == FromTime /\ prev.set /\ ILt(prev.t, Instant)

\* C2 as claimed: for instants a strictly earlier than b, Time(a) < Time(b).
C2_StrictlyMonotonic == TwoTimes => FLt(prev.jd, jd)

\* C2 as amended: for instants a strictly earlier than b,
\* Time(a) <= Time(b).
C2_Monotonic == TwoTimes => FLe(prev.jd, jd)

\* two instants 50 microseconds apart, with distinct dates
C2_Witness ==
  /\ TwoTimes
  /\ Instant = IAdd(prev.t, IFromInt(RoundTripTolerance))
  /\ FLt(prev.jd, jd)

TimeReturned == ty = "Date" /\ call.op = "Time"

InUnit(x) == FLe(FZero, x) /\ FLt(x, FConst(1))

\* C3 as claimed: for every Date jd, negative ones too, 0 <= jd.Time() < 1.
C3_FractionRange == TimeReturned => InUnit(call.ret)

\* C3 as amended: for every finite Date jd >= 0, 0 <= jd.Time() < 1.
C3_FractionRangeNonNegative ==
  (TimeReturned /\ FLe(FZero, jd)) => InUnit(call.ret)

\* the fraction of a date that has one
C3_Witness == TimeReturned /\ FLt(FZero, jd) /\ FLt(FZero, call.ret)

\* jd is within 2^-31 day, the spacing of float64 at the Julian dates of
\* int64 instants, of t / 86400000000000 + 2440587.5
NearFormula(d, t) ==
  LET k   == Scale(d, JD_1970, 31)
      lhs == IMul(Exact(d, k), NsPerDay)
      rhs == IAdd(IMul(t, Pow2(k)), IMul(Exact(JD_1970, k), NsPerDay))
  IN  ILe(IAbs(ISub(lhs, rhs)), IMul(NsPerDay, Pow2(k - 31)))

\* C4: Time of the Unix epoch is exactly 2440587.5, and Time(t) is
\* t.UnixNano() / 86400000000000 + 2440587.5 as float64 computes it: the
\* float64 within one spacing (2^-31 day) of that number.
C4_TimeFormula ==
  FromTime => /\ Instant = IZero => jd = JD_1970
              /\ NearFormula(jd, Instant)

\* Time of the Unix epoch
C4_Witness == FromTime /\ Instant = IZero /\ jd = JD_1970

\* whole + millionths / 10^6 days, in millionths of a day
Millionths(whole, millionths) ==
  IAdd(IMul(IFromInt(whole), IFromInt(10 ^ 6)), IFromInt(millionths))

\* d is less than 0.000001 day away from w millionths of a day
NearDay(d, w) ==
  LET k == Scale(d, FZero, 0)
  IN  ILt(IAbs(ISub(IMul(Exact(d, k), IFromInt(10 ^ 6)), IMul(w, Pow2(k)))), Pow2(k))

\* the Julian dates the package's tests expect
Expected ==
  { <<Fields(2017, 1, 1, 0, 0, 0, 0, "UTC"), Millionths(2457754, 500000)>>,
    <<Fields(1990, 1, 1, 0, 0, 0, 0, "UTC"), Millionths(2447892, 500000)>>,
    <<Fields(1998, 7, 4, 0, 0, 0, 0, "UTC"), Millionths(2450998, 500000)>>,
    <<Fields(2010, 2, 14, 5, 21, 0, 0, "UTC"), Millionths(2455241, 722917)>>,
    <<Fields(2010, 2, 14, 5, 21, 0, 0, "PST"), Millionths(2455242, 56250)>> }

\* d is a third of a day after e, to the spacing of float64 there:
\* |3 (d - e) - 1| <= 3 * 2^-31
ThirdOfADayAfter(d, e) ==
  LET k == Scale(d, e, 31)
  IN  ILe(IAbs(ISub(IMul(IFromInt(3), ISub(Exact(d, k), Exact(e, k))), Pow2(k))),
          IMul(IFromInt(3), Pow2(k - 31)))

TimeOfFields == FromTime /\ in.kind = "fields"

\* C5: Time maps the five reference dates to the Julian dates given, each
\* within 0.000001 day, and a wall-clock time in the zone 8 hours behind
\* UTC to a Julian date a third of a day after that of the same wall-clock
\* time in UTC.
C5_ReferenceDates ==
  TimeOfFields =>
    /\ \A e \in Expected : in.f = e[1] => NearDay(jd, e[2])
    /\ in.f.loc = "PST" =>
         ThirdOfADayAfter(jd, Time(GoDateOf([in.f EXCEPT !.loc = "UTC"])))

\* Time of 2010-02-14 05:21 in the zone 8 hours behind UTC
C5_Witness == TimeOfFields /\ in.f = Fields(2010, 2, 14, 5, 21, 0, 0, "PST")

FromNewDate == ty = "Date" /\ by = "NewDate"

\* C6: NewDate rolls a month past December into the next year and a day
\* past the 31st of January into February, and gives what Time gives for
\* time.Date of the same fields.
C6_NewDateNormalizes ==
  FromNewDate =>
    /\ jd = Time(GoDateOf(in.f))
    /\ in.f.month > 12 =>
         jd = NewDateOf([in.f EXCEPT !.year = @ + 1, !.month = @ - 12])
    /\ (in.f.month = 1 /\ in.f.day > 31) =>
         jd = NewDateOf([in.f EXCEPT !.month = 2, !.day = @ - 31])

\* NewDate of the 32nd of January
C6_Witness == FromNewDate /\ in.f.month = 1 /\ in.f.day = 32

UnixReturned == ty = "Date" /\ call.op = "Unix"

\* (jd - 2440587.5) * 86400 as float64 computes it
SecondsSince1970(d) == FMul(FSub(d, JD_1970), FConst(86400))

\* C7: for every Date whose result fits an int64, dates before the Unix
\* epoch too, jd.Unix() is the float64 (jd - 2440587.5) * 86400 with its
\* fraction discarded, not rounded to nearest.
C7_UnixTruncates ==
  (UnixReturned /\ TruncFits(SecondsSince1970(jd)))
    => IsTrunc(call.ret, SecondsSince1970(jd))

\* Unix of a date before the Unix epoch, at half a second or more past a
\* whole one: rounding to nearest and rounding down would both give the
\* second below
C7_Witness ==
  /\ UnixReturned /\ FLt(jd, JD_1970)
  /\ FLe(FConst(1), FMul(FConst(2), FSub(FFromI(call.ret), SecondsSince1970(jd))))

DayNumberReturned == ty = "Date" /\ call.op = "DayNumber"

\* C8 as claimed: for every Date jd, jd.DayNumber() is the floor of jd.
C8_DayNumberIsFloor == DayNumberReturned => IsFloor(call.ret, jd)

\* C8 as amended: for every Date jd whose integer part fits an int,
\* jd.DayNumber() is jd with its fraction discarded: the floor of jd when
\* jd >= 0 or jd is whole, one more than the floor otherwise.
C8_DayNumberTruncates ==
  (DayNumberReturned /\ TruncFits(jd)) =>
    /\ IsTrunc(call.ret, jd)
    /\ IF FLe(FZero, jd) \/ FMod1(jd) = FZero
       THEN IsFloor(call.ret, jd)
       ELSE IsFloor(ISub(call.ret, IFromInt(1)), jd)

\* the day number of a date with a fraction
C8_Witness == DayNumberReturned /\ FLt(FZero, jd) /\ FMod1(jd) # FZero /\ TruncFits(jd)

CenturyReturned == ty = "Date" /\ call.op = "Century"

\* c is (d - 2451545) / 36525 to the precision of float64, the
\* subtraction and the division each rounding once:
\* |36525 c - (d - 2451545)| <= 2^-51 |d - 2451545|
NearCentury(c, d) ==
  LET k    == Scale(c, d, 0)
      diff == ISub(Exact(d, k), Exact(JD_2000, k))
  IN  ILe(IMul(IAbs(ISub(IMul(IFromInt(36525), Exact(c, k)), diff)), Pow2(51)),
          IAbs(diff))

\* C9: Date(2451545.0).Century() is exactly 0, and jd.Century() is
\* (jd - 2451545) / 36525: negative exactly when jd is before J2000.0,
\* positive exactly when after.
C9_Century ==
  CenturyReturned =>
    /\ jd = JD_2000 => call.ret = FZero
    /\ FLt(call.ret, FZero) <=> FLt(jd, JD_2000)
    /\ FLt(FZero, call.ret) <=> FLt(JD_2000, jd)
    /\ NearCentury(call.ret, jd)

\* Century of J2000.0
C9_Witness == CenturyReturned /\ jd = JD_2000 /\ call.ret = FZero

\* what the other type gives where this one gave jd and call
SameDate(time(_), date(_)) ==
  /\ by = "Time" => jd = time(Instant)
  /\ by = "NewDate" => jd = date(in.f)

SameCall(gregorian(_), unix(_), unixnano(_), frac(_), day(_), daynumber(_), century(_)) ==
  /\ call.op = "Gregorian" => call.ret \in gregorian(jd)
  /\ call.op = "Unix" => call.ret \in unix(jd)
  /\ call.op = "UnixNano" => call.ret \in unixnano(jd)
  /\ call.op = "Time" => call.ret = frac(jd)
  /\ call.op = "Day" => call.ret = day(jd)
  /\ call.op = "DayNumber" => call.ret \in daynumber(jd)
  /\ call.op = "Century" => call.ret = century(jd)

\* C10: the legacy type and the current one agree: Time gives the same
\* number for every instant, and each accessor the two share returns the
\* same on Julian(v) as on Date(v).
C10_LegacyAgrees ==
  /\ ty = "Date" =>
       /\ SameDate(Legacy_Time, Legacy_DateOf)
       /\ SameCall(Julian_Gregorian, Julian_Unix, Julian_UnixNano, Julian_Time,
                   Julian_Day, Julian_DayNumber, Julian_Century)
  /\ ty = "Julian" =>
       /\ SameDate(Time, NewDateOf)
       /\ SameCall(Date_Gregorian, Date_Unix, Date_UnixNano, Date_Time,
                   Date_Day, Date_DayNumber, Date_Century)

\* Century called on a Julian made by the legacy Time
C10_Witness == ty = "Julian" /\ by = "Time" /\ call.op = "Century"

====
